---- MODULE Spec2Model ----
(***************************************************************************)
(* A model of streamsafe-filter.py: the two-pass streaming filter that     *)
(* collects the CD4+ FOXP3+ phenotype labels of a workbook (PASS 1) and    *)
(* then routes the matching rows of every sheet to a within100 sheet, an   *)
(* outside100 sheet and, by Sample Name, to subtype sheets (PASS 2).       *)
(*                                                                         *)
(* Python strings are TLA+ strings (Len, SubSeq, Head, Tail and \o apply). *)
(* A cell of the workbook is a record [t, v, s]: t is the Python type of   *)
(* the value openpyxl hands over ("none", "num", "str", "bool", "date"),   *)
(* v the number of a "num" cell in units of 1/Scale, s the text of a "str" *)
(* cell.                                                                   *)
(***************************************************************************)
EXTENDS Integers, Sequences, FiniteSets, TLC

VARIABLES
    wb,                 \* the input workbook: a sequence of [name, rows]
    pc,                 \* "pass1", "pass2", "done", "crashed"
    si,                 \* position of the sheet loop (index into wb)
    ri,                 \* 1: the sheet's header is read next; >= 2: that row
    candidate_labels,   \* PASS 1's set of labels
    header,             \* the stripped header of the current sheet
    ph_idx,             \* 1-based; 0 while unassigned
    dist_idx,           \* 1-based; 0 is Python's None
    sample_idx,         \* 1-based; 0 is Python's None
    used_names,         \* the registry of output sheet names
    wb_w,               \* the output workbook: a sequence of [title, rows]
    ws_within,          \* index into wb_w; 0 while unassigned
    ws_outside,         \* index into wb_w; 0 while unassigned
    subtype_sheets,     \* function: subtype -> index into wb_w
    total_rows_written,
    total_sheets,
    call                \* the last direct call of unique_name and its outcome

vars == <<wb, pc, si, ri, candidate_labels, header, ph_idx, dist_idx,
          sample_idx, used_names, wb_w, ws_within, ws_outside,
          subtype_sheets, total_rows_written, total_sheets, call>>

----------------------------------------------------------------------------
(* Python's str methods and numeric conversions *)

Min(a, b) == IF a < b THEN a ELSE b

\* s[:n]
Prefix(s, n) == IF n <= 0 THEN "" ELSE SubSeq(s, 1, Min(n, Len(s)))

\* s[i] as a one-character string, 1-based
CharAt(s, i) == SubSeq(s, i, i)

UpperChars == "ABCDEFGHIJKLMNOPQRSTUVWXYZ"
LowerChars == "abcdefghijklmnopqrstuvwxyz"
DigitChars == "0123456789"

IndexIn(alphabet, c) ==
    IF \E i \in 1..Len(alphabet) : CharAt(alphabet, i) = c
    THEN CHOOSE i \in 1..Len(alphabet) : CharAt(alphabet, i) = c
    ELSE 0

\* The lower-case letter of every upper-case letter
LowerOf ==
    [c \in {CharAt(UpperChars, i) : i \in 1..Len(UpperChars)} |->
        CharAt(LowerChars, IndexIn(UpperChars, c))]

LowerChar(c) == IF c \in DOMAIN LowerOf THEN LowerOf[c] ELSE c

\* s.lower()
RECURSIVE Lower(_)
Lower(s) == IF s = "" THEN "" ELSE LowerChar(Head(s)) \o Lower(Tail(s))

IsSpace(c) == c \in {" ", "\t"}

RECURSIVE LStrip(_)
LStrip(s) == IF s # "" /\ IsSpace(Head(s)) THEN LStrip(Tail(s)) ELSE s

RECURSIVE RStrip(_)
RStrip(s) ==
    IF s # "" /\ IsSpace(CharAt(s, Len(s)))
    THEN RStrip(SubSeq(s, 1, Len(s) - 1))
    ELSE s

\* s.strip()
Strip(s) == RStrip(LStrip(s))

\* sub in s
Contains(sub, s) ==
    \E i \in 1..(Len(s) - Len(sub) + 1) : SubSeq(s, i, i + Len(sub) - 1) = sub

\* str(n) for an int n >= 0
RECURSIVE NatStr(_)
NatStr(n) ==
    IF n < 10 THEN CharAt(DigitChars, n + 1)
    ELSE NatStr(n \div 10) \o CharAt(DigitChars, (n % 10) + 1)

\* The resolution of the model's numbers: a number x is the integer x * Scale.
Scale == 10000
FracDigits == 4

IsDigits(s) == \A i \in 1..Len(s) : IndexIn(DigitChars, CharAt(s, i)) > 0

RECURSIVE DigitsVal(_)
DigitsVal(s) ==
    IF s = "" THEN 0
    ELSE 10 * DigitsVal(SubSeq(s, 1, Len(s) - 1))
           + (IndexIn(DigitChars, CharAt(s, Len(s))) - 1)

RECURSIVE PadRight(_, _)
PadRight(s, n) == IF Len(s) >= n THEN s ELSE PadRight(s \o "0", n)

RECURSIVE DropTrailingZeros(_)
DropTrailingZeros(s) ==
    IF s # "" /\ CharAt(s, Len(s)) = "0"
    THEN DropTrailingZeros(SubSeq(s, 1, Len(s) - 1))
    ELSE s

RECURSIVE PadLeft(_, _)
PadLeft(s, n) == IF Len(s) >= n THEN s ELSE PadLeft("0" \o s, n)

\* str(x) of a number cell: an integral value is an int ("50"), any other a
\* float ("100.0001")
NumStr(v) ==
    LET a == IF v < 0 THEN -v ELSE v
        sign == IF v < 0 THEN "-" ELSE ""
    IN  IF a % Scale = 0 THEN sign \o NatStr(a \div Scale)
        ELSE sign \o NatStr(a \div Scale) \o "."
               \o DropTrailingZeros(PadLeft(NatStr(a % Scale), FracDigits))

\* A float: finite (v in units of 1/Scale), an infinity or nan; bad: float()
\* raised.
Fin(v) == [k |-> "fin", v |-> v]
Inf(neg) == [k |-> "inf", v |-> IF neg THEN -1 ELSE 1]
NaN == [k |-> "nan", v |-> 0]
Bad == [k |-> "bad", v |-> 0]

\* The digits of a fraction as units of 1/Scale; digits beyond FracDigits
\* that are not all zero count as one further unit, which keeps every
\* comparison with an integer exact.
FracVal(f) ==
    LET kept == PadRight(Prefix(f, FracDigits), FracDigits)
        rest == IF Len(f) > FracDigits THEN SubSeq(f, FracDigits + 1, Len(f))
                ELSE ""
    IN  DigitsVal(kept) + (IF DigitsVal(rest) > 0 THEN 1 ELSE 0)

\* float(s) of a string: surrounding whitespace, an optional sign, then
\* "nan", "inf", "infinity" in any case, or decimal digits with an optional
\* point. (Exponents and digit-group underscores, which float() also takes,
\* occur in no input of the model.)
ParseFloat(s) ==
    LET t == Strip(s)
        signed == t # "" /\ Head(t) \in {"+", "-"}
        neg == t # "" /\ Head(t) = "-"
        body == IF signed THEN Tail(t) ELSE t
        lb == Lower(body)
        dots == {i \in 1..Len(body) : CharAt(body, i) = "."}
        dot == IF dots = {} THEN Len(body) + 1
               ELSE CHOOSE i \in dots : \A j \in dots : i <= j
        ip == SubSeq(body, 1, dot - 1)
        fp == IF dot >= Len(body) THEN "" ELSE SubSeq(body, dot + 1, Len(body))
        mag == DigitsVal(ip) * Scale + FracVal(fp)
    IN  IF lb = "nan" THEN NaN
        ELSE IF lb \in {"inf", "infinity"} THEN Inf(neg)
        ELSE IF IsDigits(ip) /\ IsDigits(fp) /\ Len(ip) + Len(fp) > 0
             THEN Fin(IF neg THEN -mag ELSE mag)
        ELSE Bad

----------------------------------------------------------------------------
(* Cells *)

None == [t |-> "none", v |-> 0, s |-> ""]
Txt(s) == [t |-> "str", v |-> 0, s |-> s]
Num(v) == [t |-> "num", v |-> v, s |-> ""]
Bool(b) == [t |-> "bool", v |-> IF b THEN 1 ELSE 0, s |-> ""]
Date == [t |-> "date", v |-> 0, s |-> ""]

\* str(val) of a cell value
Str(c) ==
    CASE c.t = "str" -> c.s
      [] c.t = "num" -> NumStr(c.v)
      [] c.t = "bool" -> IF c.v = 1 THEN "True" ELSE "False"
      [] c.t = "date" -> "2025-11-01 00:00:00"
      [] OTHER -> "None"

----------------------------------------------------------------------------
(* USER CONFIG and the helpers of the script *)

sample_to_subtype ==
    [k \in {"8F_morph", "10A_meta", "2D_inf", "5F_micro", "8D_mix", "9A_nod",
            "4B_super"} |->
        CASE k = "8F_morph" -> "morpheaform"
          [] k = "10A_meta" -> "meta"
          [] k = "2D_inf" -> "infiltrative"
          [] k = "5F_micro" -> "micronodular"
          [] k = "8D_mix" -> "mixed (NI)"
          [] k = "9A_nod" -> "nodular"
          [] k = "4B_super" -> "superficial"]

DistanceToken == "d  istance"
UnitTokens == {"micron", "edge", "process", "tissue"}

is_distance_col_name(colname) ==
    /\ colname # ""
    /\ LET cl == Lower(colname)
       IN  Contains(DistanceToken, cl) /\ \E u \in UnitTokens : Contains(u, cl)

MAX_SHEETNAME == 31
FirstSuffix == 2
SuffixStop == 999

\* SuffixedName without the base shortened to make room for the suffix.
SuffixedNameUnshortened(base, i) == base \o "_" \o NatStr(i)

\* The candidate unique_name tries for suffix number i.
SuffixedName(base, i) ==
    LET suffix == "_" \o NatStr(i)
    IN  Prefix(base, MAX_SHEETNAME - Len(suffix)) \o suffix

\* for i in range(2, 999): the first i whose name is not in used is taken;
\* the loop running out raises RuntimeError and leaves used as it was.
SuffixLoop(base, used) ==
    LET range == FirstSuffix..(SuffixStop - 1)
        free(i) == SuffixedName(base, i) \notin used
    IN  IF \E i \in range : free(i)
        THEN LET i == CHOOSE k \in range :
                        free(k) /\ \A j \in FirstSuffix..(k - 1) : ~free(j)
             IN  [ok |-> TRUE, name |-> SuffixedName(base, i),
                  used |-> used \cup {SuffixedName(base, i)}]
        ELSE [ok |-> FALSE, name |-> "", used |-> used]

\* unique_name without the test for a name already in use.
unique_name_unchecked(base0, used) ==
    [ok |-> TRUE, name |-> Prefix(base0, MAX_SHEETNAME),
     used |-> used \cup {Prefix(base0, MAX_SHEETNAME)}]

\* unique_name(base, used): the name returned and the registry after the
\* call; ok is FALSE when the call raised.
unique_name(base0, used) ==
    LET base == Prefix(base0, MAX_SHEETNAME)
    IN  IF base \notin used
        THEN [ok |-> TRUE, name |-> base, used |-> used \cup {base}]
        ELSE SuffixLoop(base, used)

\* header = [(str(h).strip() if h is not None else "") for h in header_row]
HeaderOf(header_row) ==
    [i \in 1..Len(header_row) |->
        IF header_row[i].t = "none" THEN "" ELSE Strip(Str(header_row[i]))]

\* lc_to_idx.get(key): the last position whose lower-cased name is key
\* (a later duplicate overwrites an earlier one); 0 when there is none.
LcToIdx(hdr, key) ==
    LET hits == {i \in 1..Len(hdr) : Lower(hdr[i]) = key}
    IN  IF hits = {} THEN 0 ELSE CHOOSE i \in hits : \A j \in hits : j <= i

FirstOf(S) == IF S = {} THEN 0 ELSE CHOOSE i \in S : \A j \in S : i <= j

\* Preferred detection: the first column is_distance_col_name accepts.
PreferredDistance(hdr) ==
    FirstOf({i \in 1..Len(hdr) : is_distance_col_name(hdr[i])})

\* Fallback: the first column containing "distance".
FallbackDistance(hdr) ==
    FirstOf({i \in 1..Len(hdr) :
                hdr[i] # "" /\ Contains("distance", Lower(hdr[i]))})

\* FindDistance with the two loops in the other order.
FindDistanceFallbackFirst(hdr) ==
    IF FallbackDistance(hdr) # 0 THEN FallbackDistance(hdr)
    ELSE PreferredDistance(hdr)

\* dist_idx after both loops (0: None)
FindDistance(hdr) ==
    IF PreferredDistance(hdr) # 0 THEN PreferredDistance(hdr)
    ELSE FallbackDistance(hdr)

\* ("cd4" in sl) and ("foxp3" in sl)
DualSubstring(sl) == Contains("cd4", sl) /\ Contains("foxp3", sl)

\* row[idx] if idx < len(row) else None
CellOrNone(row, idx) == IF idx <= Len(row) THEN row[idx] ELSE None

----------------------------------------------------------------------------
(* The input workbooks of the model *)

\* Two sheet names of 31 characters; the second is the name the first
\* sheet's outside100 sheet is given.
SheetNames ==
    <<"consolidated_mIF_Nov2025_core_1", "consolidated_mIF_Nov2025_core_2">>

\* The data rows of the whole workbook number at most MaxRows.
MaxRows == 2

HeaderRows ==
    { <<Txt("Phenotype"), Txt("Distance to edge (micron)"), Txt("Sample Name")>>,
      <<Txt(" PHENOTYPE "), Txt("D  istance to tissue"), Txt("Sample")>>,
      <<Txt("Phenotype"), Txt("Area"), Txt("Sample Name")>>,
      <<Txt("Class"), Txt("Distance"), Txt("Sample Name")>> }

DataRows ==
    { <<Txt("CD4/FOXP3"), Num(100 * Scale), Txt("8F_morph")>>,
      <<Txt(" cd4+ foxp3+ "), Txt(" -100 "), Txt(" 8F_morph ")>>,
      <<Txt("CD4/FOXP3"), Num(-(100 * Scale) - 1), Txt("9A_nod")>>,
      <<Txt("FoxP3 CD4"), Txt("100.0001"), None>>,
      <<Txt("CD8"), Num(10 * Scale), Txt("8F_morph")>>,
      <<Txt("CD4/FOXP3"), Txt("NaN"), Txt("8F_morph")>>,
      <<Txt("CD4/FOXP3"), Txt("n/a"), Txt("8F_morph")>>,
      <<Txt("CD4/FOXP3"), Num(0)>>,
      <<None, None, None>> }

RowSeqs(n) == UNION {[1..k -> DataRows] : k \in 0..n}

\* The rows of a sheet: none at all (an empty sheet), or a header row and up
\* to n data rows.
SheetRows(n) == {<<>>} \cup {<<h>> \o rs : h \in HeaderRows, rs \in RowSeqs(n)}

DataLen(rows) == IF rows = <<>> THEN 0 ELSE Len(rows) - 1

\* The workbooks holding the sheets SheetNames[i..] with at most n data rows.
RECURSIVE Workbooks(_, _)
Workbooks(i, n) ==
    IF i > Len(SheetNames) THEN {<<>>}
    ELSE UNION {
            {<<[name |-> SheetNames[i], rows |-> rows]>> \o rest :
                rest \in Workbooks(i + 1, n - DataLen(rows))} :
            rows \in SheetRows(n)}

----------------------------------------------------------------------------
(* The state of the script *)

NoCall == [n |-> 0, base |-> "", before |-> {}, ok |-> TRUE, name |-> ""]

Init ==
    /\ wb \in Workbooks(1, MaxRows)
    /\ pc = "pass1"
    /\ si = 1
    /\ ri = 1
    /\ candidate_labels = {}
    /\ header = <<>>
    /\ ph_idx = 0
    /\ dist_idx = 0
    /\ sample_idx = 0
    /\ used_names = {}
    /\ wb_w = <<>>
    /\ ws_within = 0
    /\ ws_outside = 0
    /\ subtype_sheets = <<>>
    /\ total_rows_written = 0
    /\ total_sheets = 0
    /\ call = NoCall

\* The rows of the sheet the loop is at, and the row it is at.
Rows == wb[si].rows
Row == Rows[ri]

\* The sheet loop moves on: to the next sheet, or past the last one to the
\* statements that follow the loop (PASS 2's setup after PASS 1, the save
\* and the report after PASS 2).
EndSheet ==
    IF si < Len(wb) THEN pc' = pc /\ si' = si + 1 /\ ri' = 1
    ELSE /\ pc' = (IF pc = "pass1" THEN "pass2" ELSE "done")
         /\ si' = 1
         /\ ri' = 1

\* The row loop moves on: to the next row, or out of the sheet.
NextRow ==
    IF ri < Len(Rows) THEN pc' = pc /\ si' = si /\ ri' = ri + 1
    ELSE EndSheet

----------------------------------------------------------------------------
(* PASS 1 *)

\* Pass1Labels adding the lower-cased string sl instead of s.
Pass1LabelsLowered(labels, val) ==
    IF val.t = "none" THEN labels
    ELSE LET s == Strip(Str(val))
             sl == Lower(s)
         IN  IF s = "" THEN labels
             ELSE IF DualSubstring(sl) THEN labels \cup {sl}
             ELSE labels

\* candidate_labels after the row whose phenotype cell is val
Pass1Labels(labels, val) ==
    IF val.t = "none" THEN labels
    ELSE LET s == Strip(Str(val))
             sl == Lower(s)
         IN  IF s = "" THEN labels
             ELSE IF DualSubstring(sl) THEN labels \cup {s}
             ELSE labels

\* An empty sheet or a sheet without a Phenotype column: continue.
P1SkipSheet ==
    /\ pc = "pass1" /\ ri = 1
    /\ \/ Rows = <<>>
       \/ Rows # <<>> /\ LcToIdx(HeaderOf(Rows[1]), "phenotype") = 0
    /\ header' = IF Rows = <<>> THEN header ELSE HeaderOf(Rows[1])
    /\ EndSheet
    /\ UNCHANGED <<wb, candidate_labels, ph_idx, dist_idx, sample_idx,
                   used_names, wb_w, ws_within, ws_outside, subtype_sheets,
                   total_rows_written, total_sheets, call>>

\* The header holds a Phenotype column: the row loop starts.
P1OpenSheet ==
    /\ pc = "pass1" /\ ri = 1
    /\ Rows # <<>>
    /\ LcToIdx(HeaderOf(Rows[1]), "phenotype") # 0
    /\ header' = HeaderOf(Rows[1])
    /\ ph_idx' = LcToIdx(HeaderOf(Rows[1]), "phenotype")
    /\ NextRow
    /\ UNCHANGED <<wb, candidate_labels, dist_idx, sample_idx, used_names,
                   wb_w, ws_within, ws_outside, subtype_sheets,
                   total_rows_written, total_sheets, call>>

\* One row of PASS 1's row loop.
P1Row ==
    /\ pc = "pass1" /\ ri >= 2
    /\ candidate_labels' =
            Pass1Labels(candidate_labels, CellOrNone(Row, ph_idx))
    /\ NextRow
    /\ UNCHANGED <<wb, header, ph_idx, dist_idx, sample_idx, used_names, wb_w,
                   ws_within, ws_outside, subtype_sheets, total_rows_written,
                   total_sheets, call>>

----------------------------------------------------------------------------
(* PASS 2 *)

\* SheetSkipped without the "continue" for a missing distance column.
SheetSkippedWithoutDistance(rows) ==
    IF rows = <<>> THEN TRUE
    ELSE LcToIdx(HeaderOf(rows[1]), "phenotype") = 0

\* The sheet is left by one of the three "continue"s before any output sheet
\* is made: no header row, no Phenotype column, no distance column.
SheetSkipped(rows) ==
    IF rows = <<>> THEN TRUE
    ELSE IF LcToIdx(HeaderOf(rows[1]), "phenotype") = 0 THEN TRUE
    ELSE FindDistance(HeaderOf(rows[1])) = 0

P2SkipSheet ==
    /\ pc = "pass2" /\ ri = 1
    /\ SheetSkipped(Rows)
    /\ header' = IF Rows = <<>> THEN header ELSE HeaderOf(Rows[1])
    /\ ph_idx' = IF Rows = <<>> \/ LcToIdx(HeaderOf(Rows[1]), "phenotype") = 0
                 THEN ph_idx
                 ELSE LcToIdx(HeaderOf(Rows[1]), "phenotype")
    /\ dist_idx' = IF Rows = <<>> \/ LcToIdx(HeaderOf(Rows[1]), "phenotype") = 0
                   THEN dist_idx
                   ELSE 0
    /\ EndSheet
    /\ UNCHANGED <<wb, candidate_labels, sample_idx, used_names, wb_w,
                   ws_within, ws_outside, subtype_sheets, total_rows_written,
                   total_sheets, call>>

\* An output sheet as create_sheet makes it and the first append fills it.
\* src and role are not part of the workbook: they record which input sheet
\* and which destination ("within", "outside" or the subtype) the sheet was
\* made for.
NewSheet(title, hdr, src, role) ==
    [title |-> title, rows |-> <<hdr>>, src |-> src, role |-> role]

\* Columns are resolved, the within100 and outside100 sheets are created and
\* given the header; a unique_name that raises ends the run.
P2OpenSheet ==
    /\ pc = "pass2" /\ ri = 1
    /\ ~SheetSkipped(Rows)
    /\ LET hdr == HeaderOf(Rows[1])
           src == wb[si].name
           w == unique_name(src \o "_CD4_FOXP3_within100", used_names)
           o == unique_name(src \o "_CD4_FOXP3_outside100", w.used)
       IN  /\ header' = hdr
           /\ ph_idx' = LcToIdx(hdr, "phenotype")
           /\ dist_idx' = FindDistance(hdr)
           /\ sample_idx' = LcToIdx(hdr, "sample name")
           /\ IF w.ok /\ o.ok
              THEN /\ used_names' = o.used
                   /\ wb_w' = wb_w \o <<NewSheet(w.name, hdr, src, "within"),
                                        NewSheet(o.name, hdr, src, "outside")>>
                   /\ ws_within' = Len(wb_w) + 1
                   /\ ws_outside' = Len(wb_w) + 2
                   /\ total_sheets' = total_sheets + 2
                   /\ subtype_sheets' = <<>>
                   /\ NextRow
              ELSE /\ used_names' = w.used
                   /\ pc' = "crashed"
                   /\ UNCHANGED <<si, ri, wb_w, ws_within, ws_outside,
                                  total_sheets, subtype_sheets>>
    /\ UNCHANGED <<wb, candidate_labels, total_rows_written, call>>

IsEmptyRow(row) == \A i \in 1..Len(row) : row[i].t = "none"

\* phen_str of a row whose phenotype cell is not None
PhenStr(row) == Strip(Str(CellOrNone(row, ph_idx)))

\* is_cd4foxp3 looking the lower-cased string up among the labels.
is_cd4foxp3_lowered(phen_str, labels) ==
    IF labels # {} THEN Lower(phen_str) \in labels
    ELSE DualSubstring(Lower(phen_str))

\* Candidate exact match, or the substring fallback when PASS 1 found no
\* label.
is_cd4foxp3(phen_str, labels) ==
    IF labels # {} THEN phen_str \in labels
    ELSE DualSubstring(Lower(phen_str))

\* The row passes the four "continue"s before the distance is parsed.
IsTargetRow(row) ==
    /\ ~IsEmptyRow(row)
    /\ CellOrNone(row, ph_idx).t # "none"
    /\ PhenStr(row) # ""
    /\ is_cd4foxp3(PhenStr(row), candidate_labels)

\* The try block: d as a float, or Bad when anything in it raised
\* (IndexError of row[dist_idx], ValueError or TypeError of float).
Distance(row) ==
    IF dist_idx = 0 \/ dist_idx > Len(row) THEN Bad
    ELSE LET d == row[dist_idx]
         IN  CASE d.t = "str" -> ParseFloat(Strip(d.s))
               [] d.t = "num" -> Fin(d.v)
               [] d.t = "bool" -> Fin(d.v * Scale)
               [] OTHER -> Bad

Limit == 100

\* InRange with the bounds excluded: -100 < d < 100.
InRangeExclusive(d) ==
    d.k = "fin" /\ -(Limit * Scale) < d.v /\ d.v < Limit * Scale

\* -100 <= d <= 100 (False of an infinity and of nan)
InRange(d) == d.k = "fin" /\ -(Limit * Scale) <= d.v /\ d.v <= Limit * Scale

\* A non-target row or one whose distance does not parse: continue.
P2RowSkip ==
    /\ pc = "pass2" /\ ri >= 2
    /\ ~IsTargetRow(Row) \/ Distance(Row).k = "bad"
    /\ NextRow
    /\ UNCHANGED <<wb, candidate_labels, header, ph_idx, dist_idx, sample_idx,
                   used_names, wb_w, ws_within, ws_outside, subtype_sheets,
                   total_rows_written, total_sheets, call>>

AppendRow(w, i, row) == [w EXCEPT ![i].rows = Append(@, row)]

\* NeedsSubtypeSheet without the look-up: a sheet for every row.
NeedsSubtypeSheetAlways(subtype, sheets) == TRUE

\* if subtype not in subtype_sheets
NeedsSubtypeSheet(subtype, sheets) == subtype \notin DOMAIN sheets

\* total_rows_written after a row went to its range sheet
RowsWrittenAfter(n) == n + 1

\* SheetsAfterSubtype without the increment.
SheetsAfterSubtypeUncounted(n) == n

\* total_sheets after a subtype sheet was created
SheetsAfterSubtype(n) == n + 1

\* The subtype mapping of a row already appended to its range sheet (w is
\* the output workbook after that append): the output workbook, the
\* registry, subtype_sheets and total_sheets as the block leaves them, and
\* whether it raised (IndexError of row[sample_idx], RuntimeError of
\* unique_name).
SubtypeMapping(w, row) ==
    LET same == [w |-> w, used |-> used_names, sheets |-> subtype_sheets,
                 total |-> total_sheets, raised |-> FALSE]
    IN  IF sample_idx = 0 THEN same
        ELSE IF sample_idx > Len(row) THEN [same EXCEPT !.raised = TRUE]
        ELSE IF row[sample_idx].t = "none" THEN same
        ELSE IF Strip(Str(row[sample_idx])) \notin DOMAIN sample_to_subtype
             THEN same
        ELSE LET subtype == sample_to_subtype[Strip(Str(row[sample_idx]))]
                 u == unique_name(wb[si].name \o "_" \o subtype, used_names)
             IN  IF ~NeedsSubtypeSheet(subtype, subtype_sheets)
                 THEN [same EXCEPT !.w = AppendRow(w, subtype_sheets[subtype], row)]
                 ELSE IF ~u.ok THEN [same EXCEPT !.raised = TRUE]
                 ELSE [w |-> Append(w, [NewSheet(u.name, header, wb[si].name, subtype)
                                          EXCEPT !.rows = Append(@, row)]),
                       used |-> u.used,
                       sheets |-> [s \in DOMAIN subtype_sheets \cup {subtype} |->
                                      IF s = subtype THEN Len(w) + 1
                                      ELSE subtype_sheets[s]],
                       total |-> SheetsAfterSubtype(total_sheets),
                       raised |-> FALSE]

\* A target row with a distance: appended to within100 or outside100,
\* counted, then mapped to its subtype sheet.
P2RowRoute ==
    /\ pc = "pass2" /\ ri >= 2
    /\ IsTargetRow(Row)
    /\ Distance(Row).k # "bad"
    /\ LET dest == IF InRange(Distance(Row)) THEN ws_within ELSE ws_outside
           m == SubtypeMapping(AppendRow(wb_w, dest, Row), Row)
       IN  /\ wb_w' = m.w
           /\ used_names' = m.used
           /\ subtype_sheets' = m.sheets
           /\ total_sheets' = m.total
           /\ total_rows_written' = RowsWrittenAfter(total_rows_written)
           /\ IF m.raised THEN pc' = "crashed" /\ UNCHANGED <<si, ri>>
              ELSE NextRow
    /\ UNCHANGED <<wb, candidate_labels, header, ph_idx, dist_idx, sample_idx,
                   ws_within, ws_outside, call>>

Next ==
    \/ P1SkipSheet
    \/ P1OpenSheet
    \/ P1Row
    \/ P2SkipSheet
    \/ P2OpenSheet
    \/ P2RowSkip
    \/ P2RowRoute

Spec == Init /\ [][Next]_vars

----------------------------------------------------------------------------
(* unique_name called directly, on registries the script can build up *)

\* The calls made on one registry number at most MaxCalls.
MaxCalls == 3

NameBases ==
    { "Sheet1_CD4_FOXP3_within100",
      "Sheet1_CD4_FOXP3_outside100",
      SheetNames[1] \o "_CD4_FOXP3_within100",
      SheetNames[1] \o "_nodular",
      SheetNames[2] \o "_CD4_FOXP3_outside100" }

\* The registry after SheetNames[1] and its suffixed names up to the last
\* but one were handed out: one suffixed name is left.
AlmostFull ==
    {SheetNames[1]}
        \cup {SuffixedName(SheetNames[1], i) : i \in FirstSuffix..(SuffixStop - 2)}

InitName ==
    /\ used_names \in {{}, AlmostFull}
    /\ call = NoCall
    /\ pc = "naming"
    /\ wb = <<>> /\ si = 1 /\ ri = 1 /\ candidate_labels = {}
    /\ header = <<>> /\ ph_idx = 0 /\ dist_idx = 0 /\ sample_idx = 0
    /\ wb_w = <<>> /\ ws_within = 0 /\ ws_outside = 0
    /\ subtype_sheets = <<>> /\ total_rows_written = 0 /\ total_sheets = 0

CallUniqueName ==
    /\ pc = "naming"
    /\ call.n < MaxCalls
    /\ \E base \in NameBases :
          LET r == unique_name(base, used_names)
          IN  /\ used_names' = r.used
              /\ call' = [n |-> call.n + 1, base |-> base,
                          before |-> used_names, ok |-> r.ok, name |-> r.name]
    /\ UNCHANGED <<wb, pc, si, ri, candidate_labels, header, ph_idx, dist_idx,
                   sample_idx, wb_w, ws_within, ws_outside, subtype_sheets,
                   total_rows_written, total_sheets>>

NextName == CallUniqueName

SpecName == InitName /\ [][NextName]_vars

----------------------------------------------------------------------------
(* The distance column resolved directly, on headers of every shape *)

\* A header has at most MaxCols columns.
MaxCols == 3

ColNames ==
    { Txt("Phenotype"),
      Txt("Nearest Distance"),
      Txt("D  istance to tissue edge"),
      Txt("D istance to edge (micron)"),
      Txt(" d  ISTANCE (MICRON) "),
      None }

InitDist ==
    /\ pc = "resolving"
    /\ header = <<>>
    /\ dist_idx = 0
    /\ wb = <<>> /\ si = 1 /\ ri = 1 /\ candidate_labels = {}
    /\ ph_idx = 0 /\ sample_idx = 0 /\ used_names = {}
    /\ wb_w = <<>> /\ ws_within = 0 /\ ws_outside = 0
    /\ subtype_sheets = <<>> /\ total_rows_written = 0 /\ total_sheets = 0
    /\ call = NoCall

ResolveHeader ==
    /\ pc = "resolving"
    /\ \E k \in 1..MaxCols : \E header_row \in [1..k -> ColNames] :
          /\ header' = HeaderOf(header_row)
          /\ dist_idx' = FindDistance(HeaderOf(header_row))
    /\ pc' = "resolved"
    /\ UNCHANGED <<wb, si, ri, candidate_labels, ph_idx, sample_idx,
                   used_names, wb_w, ws_within, ws_outside, subtype_sheets,
                   total_rows_written, total_sheets, call>>

NextDist == ResolveHeader

SpecDist == InitDist /\ [][NextDist]_vars

----------------------------------------------------------------------------
(* Properties *)

\* PASS 2 stands at a data row of a sheet it opened.
AtRow == pc = "pass2" /\ ri >= 2

\* The output sheet made for input sheet src and destination role.
SheetFor(w, src, role) ==
    CHOOSE i \in 1..Len(w) : w[i].src = src /\ w[i].role = role

Appended(i) == wb_w'[i].rows = Append(wb_w[i].rows, Row)
Kept(i) == wb_w'[i].rows = wb_w[i].rows

\* C1: a target row whose distance parses to a number d is appended to the
\* within100 sheet of its table and not to the outside100 sheet when
\* -100 <= d <= 100, and to the outside100 sheet and not to the within100
\* sheet otherwise.
C1_RangeRouting ==
    [][ (AtRow /\ IsTargetRow(Row) /\ Distance(Row).k \in {"fin", "inf"})
        => LET d == Distance(Row)
               inside == d.k = "fin" /\ -100 * Scale <= d.v /\ d.v <= 100 * Scale
               within == SheetFor(wb_w, wb[si].name, "within")
               outside == SheetFor(wb_w, wb[si].name, "outside")
           IN  IF inside THEN Appended(within) /\ Kept(outside)
               ELSE Appended(outside) /\ Kept(within) ]_vars

\* Some within100 sheet holds a row of distance -100 and some outside100
\* sheet the row of distance -100.0001.
C1_Witness ==
    /\ \E i \in 1..Len(wb_w) :
          /\ wb_w[i].role = "within"
          /\ \E k \in 2..Len(wb_w[i].rows) : wb_w[i].rows[k][2] = Txt(" -100 ")
    /\ \E i \in 1..Len(wb_w) :
          /\ wb_w[i].role = "outside"
          /\ \E k \in 2..Len(wb_w[i].rows) :
                wb_w[i].rows[k][2] = Num(-(100 * Scale) - 1)

\* The phenotype cells of the workbook: the cells of the data rows in the
\* Phenotype column of every sheet that has one.
PhenotypeCells ==
    UNION { IF wb[i].rows = <<>>
               \/ LcToIdx(HeaderOf(wb[i].rows[1]), "phenotype") = 0
            THEN {}
            ELSE {CellOrNone(wb[i].rows[k],
                             LcToIdx(HeaderOf(wb[i].rows[1]), "phenotype")) :
                     k \in 2..Len(wb[i].rows)} :
            i \in 1..Len(wb) }

\* C2: once PASS 1 is over, candidate_labels is exactly the set of the
\* trimmed, case-preserved strings of the phenotype cells that, lower-cased,
\* contain both "cd4" and "foxp3".
C2_Vocabulary ==
    pc \in {"pass2", "done", "crashed"}
        => candidate_labels =
              { Strip(Str(c)) :
                  c \in {x \in PhenotypeCells :
                            /\ x.t # "none"
                            /\ Contains("cd4", Lower(Str(x)))
                            /\ Contains("foxp3", Lower(Str(x)))} }

\* PASS 1 is over and left two capitalisations of the label, one of them
\* trimmed.
C2_Witness ==
    /\ pc = "pass2"
    /\ {"CD4/FOXP3", "cd4+ foxp3+"} \subseteq candidate_labels

\* The two-tier resolution the claim describes, for a given tier-1 token.
TwoTier(token, hdr) ==
    LET tier1 == {i \in 1..Len(hdr) :
                     /\ Contains(token, Lower(hdr[i]))
                     /\ \E u \in {"micron", "edge", "process", "tissue"} :
                           Contains(u, Lower(hdr[i]))}
        tier2 == {i \in 1..Len(hdr) : Contains("distance", Lower(hdr[i]))}
        leftmost(S) == CHOOSE i \in S : \A j \in S : i <= j
    IN  IF tier1 # {} THEN leftmost(tier1)
        ELSE IF tier2 # {} THEN leftmost(tier2)
        ELSE 0

\* C3 as stated: the tier-1 token is "d istance", split by one space.
C3_OneSpace == pc = "resolved" => dist_idx = TwoTier("d istance", header)

\* C3 amended: the two-tier first-match scan with the tier-1 token
\* "d  istance", split by two spaces.
C3_TwoSpaces == pc = "resolved" => dist_idx = TwoTier("d  istance", header)

\* A tier-1 column won although a tier-2 column stands left of it.
C3_Witness ==
    /\ pc = "resolved"
    /\ header = <<"Nearest Distance", "D  istance to tissue edge">>
    /\ dist_idx = 2

\* C4: every output sheet's title has at most 31 characters and is
\* registered, no two output sheets share a title, the registry never loses
\* a name, and the title of every sheet a step creates was not registered
\* before the step.
C4_UniqueTitles ==
    /\ [](/\ \A i \in 1..Len(wb_w) :
                Len(wb_w[i].title) <= 31 /\ wb_w[i].title \in used_names
          /\ \A i, j \in 1..Len(wb_w) :
                i # j => wb_w[i].title # wb_w[j].title)
    /\ [][ /\ used_names \subseteq used_names'
           /\ \A i \in (Len(wb_w) + 1)..Len(wb_w') :
                 wb_w'[i].title \notin used_names ]_vars

\* Both input sheets were opened; the second one's names all collided with
\* names taken for the first and got suffixes.
C4_Witness ==
    /\ Len(wb_w) >= 4
    /\ wb_w[3].title = "consolidated_mIF_Nov2025_core_3"
    /\ wb_w[4].title = "consolidated_mIF_Nov2025_core_4"

\* The name the claim gives suffix number k for the truncated base b.
Suffixed(b, k) == SubSeq(b, 1, Min(Len(b), 31 - Len("_" \o NatStr(k)))) \o "_" \o NatStr(k)

\* C5: unique_name returns the base truncated to 31 characters when that is
\* free; otherwise the truncated base, shortened as needed, followed by "_k"
\* for the smallest k in 2..998 whose name is free; it raises only when the
\* truncated base and the names for all k in 2..998 are registered, and then
\* leaves the registry unchanged. A call that returns registers its name.
C5_UniqueName ==
    call.n > 0 =>
        LET b == SubSeq(call.base, 1, Min(Len(call.base), 31))
            free(k) == Suffixed(b, k) \notin call.before
        IN  /\ b \notin call.before => call.ok /\ call.name = b
            /\ (b \in call.before /\ \E k \in 2..998 : free(k)) =>
                  /\ call.ok
                  /\ \E k \in 2..998 :
                        /\ free(k)
                        /\ \A j \in 2..(k - 1) : ~free(j)
                        /\ call.name = Suffixed(b, k)
            /\ (b \in call.before /\ \A k \in 2..998 : ~free(k)) =>
                  ~call.ok /\ used_names = call.before
            /\ call.ok => used_names = call.before \cup {call.name}

\* A call took the last free name, "..._998", and the next call raised.
C5_Witness ==
    /\ call.n = 2
    /\ ~call.ok
    /\ "consolidated_mIF_Nov2025_co_998" \in call.before

\* A table PASS 2 has to skip: no header row, no column named Phenotype, or
\* no distance column under either tier.
Skippable(rows) ==
    IF rows = <<>> THEN TRUE
    ELSE LET hdr == HeaderOf(rows[1])
         IN  \/ ~\E i \in 1..Len(hdr) : Lower(hdr[i]) = "phenotype"
             \/ PreferredDistance(hdr) = 0 /\ FallbackDistance(hdr) = 0

RowsOfSheet(name) == wb[CHOOSE i \in 1..Len(wb) : wb[i].name = name].rows

\* C6: no output sheet is ever made for a skippable table; the step PASS 2
\* takes at such a table creates no sheet, registers no name, writes no row
\* and moves on to the next table (to the end of the run after the last
\* one) without raising.
C6_SkippedTables ==
    /\ [](\A i \in 1..Len(wb_w) : ~Skippable(RowsOfSheet(wb_w[i].src)))
    /\ [][ (pc = "pass2" /\ ri = 1 /\ Skippable(Rows))
           => /\ UNCHANGED <<wb_w, used_names, total_sheets, total_rows_written>>
              /\ IF si < Len(wb) THEN pc' = "pass2" /\ si' = si + 1 /\ ri' = 1
                 ELSE pc' = "done" ]_vars

\* The first table has a Phenotype column and rows but no distance column
\* and was skipped; the table after it was processed and a row of it
\* written.
C6_Witness ==
    /\ pc = "done"
    /\ Len(wb[1].rows) >= 2
    /\ LcToIdx(HeaderOf(wb[1].rows[1]), "phenotype") # 0
    /\ Skippable(wb[1].rows)
    /\ Len(wb_w) >= 2
    /\ wb_w[1].src = wb[2].name
    /\ total_rows_written = 1

\* The row PASS 2 stands at carries a sample name that is a key of the
\* subtype map.
Keyed ==
    /\ \E i \in 1..Len(header) : Lower(header[i]) = "sample name"
    /\ LcToIdx(header, "sample name") <= Len(Row)
    /\ Row[LcToIdx(header, "sample name")].t # "none"
    /\ Strip(Str(Row[LcToIdx(header, "sample name")])) \in DOMAIN sample_to_subtype

SubtypeSheets(w) == {i \in 1..Len(w) : w[i].role \notin {"within", "outside"}}

\* C7: no subtype sheet is made twice for the same input table and subtype;
\* a row routed to a range sheet whose sample name is a key is appended to
\* exactly one subtype sheet, the one of its table and subtype, which when
\* new holds the source header and then the row; every other subtype sheet
\* stays as it is, and a row without such a key changes no subtype sheet
\* and creates none.
C7_SubtypeRouting ==
    /\ [](\A i, j \in 1..Len(wb_w) :
             (wb_w[i].src = wb_w[j].src /\ wb_w[i].role = wb_w[j].role) => i = j)
    /\ [][ (AtRow /\ IsTargetRow(Row) /\ Distance(Row).k # "bad")
           => IF Keyed
              THEN LET subtype == sample_to_subtype[
                          Strip(Str(Row[LcToIdx(header, "sample name")]))]
                       hit == {i \in SubtypeSheets(wb_w') :
                                  wb_w'[i].src = wb[si].name
                                     /\ wb_w'[i].role = subtype}
                   IN  /\ Cardinality(hit) = 1
                       /\ \A i \in SubtypeSheets(wb_w') :
                             IF i \in hit
                             THEN IF i <= Len(wb_w) THEN Appended(i)
                                  ELSE wb_w'[i].rows = <<HeaderOf(Rows[1]), Row>>
                             ELSE i <= Len(wb_w) /\ Kept(i)
              ELSE /\ SubtypeSheets(wb_w') = SubtypeSheets(wb_w)
                   /\ \A i \in SubtypeSheets(wb_w) : Kept(i) ]_vars

\* A subtype sheet holds its header and two rows: it was created at the
\* first and found again at the second.
C7_Witness ==
    \E i \in SubtypeSheets(wb_w) :
        Len(wb_w[i].rows) = 3 /\ wb_w[i].rows[1] = header

\* The distance cell of the row is a numeric cell or a string that parses
\* as a decimal number.
DecimalDistance(row, idx) ==
    /\ idx <= Len(row)
    /\ \/ row[idx].t = "num"
       \/ row[idx].t = "str" /\ ParseFloat(row[idx].s).k = "fin"

\* C8: a target row whose distance cell is neither a numeric cell nor a
\* string that parses as a decimal number is skipped: nothing is appended,
\* counted, registered or created, and the run goes on.
C8_UnparsableSkipped ==
    [][ (AtRow /\ IsTargetRow(Row) /\ ~DecimalDistance(Row, dist_idx))
        => /\ UNCHANGED <<wb_w, used_names, subtype_sheets, total_sheets,
                          total_rows_written>>
           /\ pc' # "crashed" ]_vars

\* The data rows (the rows after the header) of the sheets S of w.
RECURSIVE DataRowCount(_, _)
DataRowCount(w, S) ==
    IF S = {} THEN 0
    ELSE LET i == CHOOSE x \in S : TRUE
         IN  (Len(w[i].rows) - 1) + DataRowCount(w, S \ {i})

\* C9 as stated: at the end of the run total_sheets is the number of output
\* sheets and total_rows_written the number of data rows in all of them,
\* subtype sheets included.
C9_AllSheets ==
    pc = "done" =>
        /\ total_sheets = Len(wb_w)
        /\ total_rows_written = DataRowCount(wb_w, 1..Len(wb_w))

\* C9 amended: at the end of the run total_sheets is the number of output
\* sheets and total_rows_written the number of data rows in the within100
\* and outside100 sheets.
C9_RangeSheets ==
    pc = "done" =>
        /\ total_sheets = Len(wb_w)
        /\ total_rows_written =
              DataRowCount(wb_w, (1..Len(wb_w)) \ SubtypeSheets(wb_w))

\* The run ended with two rows written and a subtype sheet among the
\* outputs.
C9_Witness ==
    /\ pc = "done"
    /\ total_rows_written = 2
    /\ SubtypeSheets(wb_w) # {}

\* C10: whether or not PASS 1 found labels, a row with a non-empty trimmed
\* phenotype gets past the target test exactly if its lower-cased trimmed
\* phenotype contains "cd4" and "foxp3": with a distance that parses it is
\* written and counted, and without the two substrings nothing is written.
C10_BranchesAgree ==
    [][ (AtRow /\ CellOrNone(Row, ph_idx).t # "none"
               /\ Strip(Str(CellOrNone(Row, ph_idx))) # "")
        => LET sl == Lower(Strip(Str(CellOrNone(Row, ph_idx))))
               dual == Contains("cd4", sl) /\ Contains("foxp3", sl)
           IN  /\ (dual /\ Distance(Row).k # "bad")
                     => total_rows_written' = total_rows_written + 1
               /\ ~dual => UNCHANGED <<wb_w, total_rows_written>> ]_vars

\* PASS 1 found a lower-case label and an upper-case one, and PASS 2 wrote
\* the upper-case row.
C10_Witness ==
    /\ "cd4+ foxp3+" \in candidate_labels
    /\ \E i \in 1..Len(wb_w) : \E k \in 2..Len(wb_w[i].rows) :
          wb_w[i].rows[k][1] = Txt("CD4/FOXP3")

====
